---- MODULE Spec2Model ----
(***************************************************************************)
(* Model of the robot back-end data lifecycle (src/main.py):               *)
(* DataSimulator -> DataProcessor -> DataManager (in-memory state + two    *)
(* JSON files) driven by the lifespan startup call, the background loop of *)
(* BackgroundTaskManager and the bootstrap of GET /api/data.               *)
(*                                                                         *)
(* Floats are scaled integers (tenths, hundredths).  A pydantic object is  *)
(* a record with a "cls" field; model_dump() drops the class and yields    *)
(* plain dicts, the constructors put it back.  A file is a record          *)
(* [st, doc] with st in {"missing", "corrupt", "ok"}; a file opened with   *)
(* mode "w" is truncated (st = "corrupt": an empty or partial document     *)
(* does not parse) until json.dump has finished.                           *)
(***************************************************************************)
EXTENDS Integers, Sequences, FiniteSets, TLC

\* ------------------------------------------------------------------ bounds
MaxCycles == 2
MaxIncidents == 2
NumSamples == 1
NumReaders == 2
MaxMotors == 2

\* ------------------------------------------------------------------- tasks
LIFESPAN == 0
LOOP == 0 - 1
Readers == 1..NumReaders
LOOP2 == 0 - 2
Loops == {LOOP, LOOP2}
Tasks == {LIFESPAN} \cup Loops \cup Readers

\* ------------------------------------------------------------- data models
None == [cls |-> "None"]
NoDoc == [none |-> TRUE]

\* random.uniform/randint and round(): the pseudo-random state k fixes the
\* values drawn for one reading (velocity, cm, temperature in tenths,
\* centroid in hundredths).
generate_motor_data(motor_id, k) ==
    [cls |-> "RawMotorData", id |-> motor_id,
     velocity |-> 1300 + 100 * k + motor_id,
     cm |-> 100 + 50 * k + motor_id,
     temperature |-> 650 + 40 * k + motor_id]

generate_pallet_data(k, ts) ==
    [cls |-> "RawPalletData", id_pallet |-> k, timestamp_raw |-> ts]

generate_centroid_data(k) ==
    [cls |-> "RawCentroidData", centroid_x |-> 0 - 100 + 30 * k,
     centroid_y |-> 10 * k, centroid_z |-> 100 - 30 * k]

simulate_hardware_data(k, ts) ==
    [cls |-> "RawHardwareData",
     motors |-> [i \in 1..3 |-> generate_motor_data(i, k)],
     pallet |-> generate_pallet_data(k, ts),
     centroid |-> generate_centroid_data(k)]

\* The distance is taken from the velocity field.
process_motor_velocity(raw_motor) ==
    [cls |-> "ProcessedMotor", id |-> raw_motor.id,
     velocity |-> raw_motor.velocity, distance |-> raw_motor.velocity,
     temperature |-> raw_motor.temperature]

process_motor(raw_motor) ==
    [cls |-> "ProcessedMotor", id |-> raw_motor.id,
     velocity |-> raw_motor.velocity, distance |-> raw_motor.cm,
     temperature |-> raw_motor.temperature]

process_pallet(raw_pallet) ==
    [cls |-> "ProcessedPallet", id |-> raw_pallet.id_pallet,
     timestamp |-> raw_pallet.timestamp_raw]

process_centroid(raw_centroid) ==
    [cls |-> "Giroscopio",
     centroid |-> [cls |-> "Centroid", x |-> raw_centroid.centroid_x,
                   y |-> raw_centroid.centroid_y,
                   z |-> raw_centroid.centroid_z]]

process_hardware_data(raw) ==
    [cls |-> "ProcessedRobotData",
     motors |-> [i \in 1..Len(raw.motors) |-> process_motor(raw.motors[i])],
     pallets |-> <<process_pallet(raw.pallet)>>,
     giroscopio |-> process_centroid(raw.centroid)]

\* ProcessedRobotData.model_dump(): nested dicts without classes.
model_dump(d) ==
    [motors |-> [i \in 1..Len(d.motors) |->
                    [id |-> d.motors[i].id, velocity |-> d.motors[i].velocity,
                     distance |-> d.motors[i].distance,
                     temperature |-> d.motors[i].temperature]],
     pallets |-> [i \in 1..Len(d.pallets) |->
                    [id |-> d.pallets[i].id,
                     timestamp |-> d.pallets[i].timestamp]],
     giroscopio |-> [centroid |-> [x |-> d.giroscopio.centroid.x,
                                   y |-> d.giroscopio.centroid.y,
                                   z |-> d.giroscopio.centroid.z]]]

\* ProcessedRobotData(**data_dict): validation rebuilds the typed objects.
ProcessedRobotData(doc) ==
    [cls |-> "ProcessedRobotData",
     motors |-> [i \in 1..Len(doc.motors) |->
                    [cls |-> "ProcessedMotor", id |-> doc.motors[i].id,
                     velocity |-> doc.motors[i].velocity,
                     distance |-> doc.motors[i].distance,
                     temperature |-> doc.motors[i].temperature]],
     pallets |-> [i \in 1..Len(doc.pallets) |->
                    [cls |-> "ProcessedPallet", id |-> doc.pallets[i].id,
                     timestamp |-> doc.pallets[i].timestamp]],
     giroscopio |-> [cls |-> "Giroscopio",
                     centroid |-> [cls |-> "Centroid",
                                   x |-> doc.giroscopio.centroid.x,
                                   y |-> doc.giroscopio.centroid.y,
                                   z |-> doc.giroscopio.centroid.z]]]

\* HistoricalRecord.model_dump() / HistoricalRecord(**record)
record_dump(rec) ==
    [timestamp_coleta |-> rec.timestamp_coleta, data |-> model_dump(rec.data)]

HistoricalRecord(doc) ==
    [cls |-> "HistoricalRecord", timestamp_coleta |-> doc.timestamp_coleta,
     data |-> ProcessedRobotData(doc.data)]

\* Only the newest record is written.
hist_dump_newest(hist) ==
    IF hist = <<>> THEN <<>> ELSE <<record_dump(hist[Len(hist)])>>

hist_dump(hist) == [i \in 1..Len(hist) |-> record_dump(hist[i])]

\* ------------------------------------------------------------------- files
MissingData == [st |-> "missing", doc |-> NoDoc]
TruncatedData == [st |-> "corrupt", doc |-> NoDoc]
MissingHist == [st |-> "missing", doc |-> <<>>]
TruncatedHist == [st |-> "corrupt", doc |-> <<>>]

\* _load_current_from_disk: exists() false leaves None; json.load of a
\* truncated document raises and the except clause leaves None.
load_current_from_disk(file) ==
    IF file.st = "ok" THEN ProcessedRobotData(file.doc) ELSE None

\* _load_historical_from_disk: the list is assigned only when every record
\* has been built.
load_historical_from_disk(file) ==
    IF file.st = "ok"
    THEN [i \in 1..Len(file.doc) |-> HistoricalRecord(file.doc[i])]
    ELSE <<>>

\* datetime.now(timezone.utc): the clock has advanced since it was last read.
clock_read(t) == t + 1

\* The new snapshot only fills in where there was none.
replace_current_keep(old, new) == IF old = None THEN new ELSE old

\* line 387: the assignment replaces the whole snapshot.
replace_current(old, new) == new

\* The new record goes to the front of the list.
add_to_historical_front(hist, data, ts) ==
    <<[cls |-> "HistoricalRecord", timestamp_coleta |-> ts, data |-> data]>>
        \o hist

\* _add_to_historical: list.append of a record stamped with the clock.
add_to_historical(hist, data, ts) ==
    Append(hist, [cls |-> "HistoricalRecord", timestamp_coleta |-> ts,
                  data |-> data])

\* ------------------------------------------------------------------- state
VARIABLES
    current_data,      \* DataManager.current_data
    historical_data,   \* DataManager.historical_data
    data_file,         \* data/robot_data.json
    hist_file,         \* data/hist_data.json
    now,               \* the wall clock read by datetime.now()
    pc,                \* position of every coroutine
    raw_data,          \* update_data's local raw_data, per caller
    processed_data,    \* update_data's local processed_data, per caller
    response,          \* get_robot_data's local current_data, per request
    hist_response,     \* get_historical_data's local historical_data
    cancel_requested,  \* the tasks on which task.cancel() has been called
    task,              \* BackgroundTaskManager.task: no task or one task
    cycles,            \* update_data calls begun and not ended by a fault
                       \* (bounded by MaxCycles)
    incidents,         \* failed writes, faulted cycles and restarts so far
    completed,         \* snapshots of the update_data calls that returned,
                       \* in return order, since construction
    boot,              \* what DataManager.__init__ found and loaded
    persisted,         \* every record a completed write has put in the
                       \* history file, ever
    entry,             \* per caller: the state at entry of update_data
    saved,             \* per caller: the files this cycle has written
    failed,            \* per caller: the files this cycle failed to write
    produced,          \* latest snapshot assigned at line 387 since
                       \* construction
    last_cycle,        \* snapshot of the latest completed cycle, ever
    last_produced,     \* latest snapshot assigned at line 387, ever
    request,           \* per request: the state at entry of the handler
    served             \* GET /api/data has been answered since construction

memVars == <<current_data, historical_data>>
fileVars == <<data_file, hist_file>>
localVars == <<raw_data, processed_data>>
respVars == <<response, hist_response>>
mgrVars == <<cancel_requested, task>>
budgetVars == <<cycles, incidents>>
cycleVars == <<entry, saved, failed>>
seenVars == <<completed, boot, produced, last_cycle, last_produced, request,
             served>>
obsVars == <<seenVars, persisted>>
vars == <<current_data, historical_data, data_file, hist_file, now, pc,
          raw_data, processed_data, response, hist_response,
          cancel_requested, task, cycles, incidents, completed, boot,
          persisted, entry,
          saved, failed, produced, last_cycle, last_produced, request,
          served>>

NoRaw == [cls |-> "None"]
NoResponse == [cls |-> "NoResponse"]
Error500 == [cls |-> "InternalServerError"]
NoEntry == [current |-> None, history |-> <<>>, mirrored |-> FALSE]
NoRequest == [current |-> None, history |-> <<>>, first |-> FALSE]
BothFiles == {"current", "historical"}

BootOf(cur, hist, dfile, hfile) ==
    [current |-> cur, history |-> hist,
     fresh |-> dfile.st = "missing" /\ hfile.st = "missing"]

RequestOf(cur, hist, first) ==
    [current |-> cur, history |-> hist, first |-> first]

InitialPc == [t \in Tasks |->
                IF t = LIFESPAN THEN "init"
                ELSE IF t \in Loops THEN "nil" ELSE "idle"]

\* Module import: DataManager() with no files on disk, no request served.
Init ==
    /\ data_file = MissingData
    /\ hist_file = MissingHist
    /\ current_data = load_current_from_disk(data_file)
    /\ historical_data = load_historical_from_disk(hist_file)
    /\ now = 0
    /\ pc = InitialPc
    /\ raw_data = [t \in Tasks |-> NoRaw]
    /\ processed_data = [t \in Tasks |-> None]
    /\ response = [r \in Readers |-> NoResponse]
    /\ hist_response = [r \in Readers |-> <<>>]
    /\ cancel_requested = {}
    /\ task = {}
    /\ cycles = 0
    /\ incidents = 0
    /\ completed = <<>>
    /\ boot = BootOf(current_data, historical_data, data_file, hist_file)
    /\ persisted = {}
    /\ entry = [t \in Tasks |-> NoEntry]
    /\ saved = [t \in Tasks |-> {}]
    /\ failed = [t \in Tasks |-> {}]
    /\ produced = None
    /\ last_cycle = None
    /\ last_produced = None
    /\ request = [r \in Readers |-> NoRequest]
    /\ served = FALSE

\* ------------------------------------------------------------- scheduling
\* update_data awaits between line 387 and line 390.
SuspendedPcsWithAwait ==
    {"init", "serving", "stop_wait", "exited", "nil", "created", "sleep",
     "sleep_err", "cancelled", "idle", "pending", "u_append"}

\* The positions at which a coroutine is suspended (not yet started,
\* awaiting, or finished).  Everywhere else it is inside synchronous code.
SuspendedPcs == {"init", "serving", "stop_wait", "exited", "nil", "created",
                 "sleep", "sleep_err", "cancelled", "idle", "pending"}

\* The positions inside update_data.
UpdatePcs == {"u_sim", "u_proc", "u_swap", "u_append", "u_cur_open",
              "u_cur_dump", "u_hist_open", "u_hist_dump", "u_ret"}

\* A thread per caller: nothing holds a caller back.
CanRunPreemptive(t) == TRUE

\* update_data is a plain def and the handlers call it without await: a
\* coroutine runs only while every other coroutine is suspended.
CanRun(t) == \A u \in Tasks \ {t} : pc[u] \in SuspendedPcs

\* No while loop: the task ends after its first cycle.
ContinuationOnce(t) ==
    IF t = LIFESPAN THEN "start" ELSE IF t \in Loops THEN "exited" ELSE "reget"

\* Where update_data returns to in each caller.
Continuation(t) ==
    IF t = LIFESPAN THEN "start" ELSE IF t \in Loops THEN "sleep" ELSE "reget"

\* ------------------------------------------------------------ update_data
\* line 381: simulate_hardware_data(); the pallet timestamp reads the clock.
Simulate(t) ==
    /\ pc[t] = "u_sim"
    /\ CanRun(t)
    /\ now' = clock_read(now)
    /\ \E k \in 1..NumSamples :
          raw_data' = [raw_data EXCEPT ![t] = simulate_hardware_data(k, now')]
    /\ pc' = [pc EXCEPT ![t] = "u_proc"]
    /\ UNCHANGED <<memVars, fileVars, processed_data, respVars,
                   mgrVars, budgetVars, cycleVars, obsVars>>

\* The result is assigned to self.current_data as soon as it is computed,
\* before update_data has left line 384.
ProcessAssigns(t) ==
    /\ pc[t] = "u_proc"
    /\ CanRun(t)
    /\ processed_data' =
          [processed_data EXCEPT ![t] = process_hardware_data(raw_data[t])]
    /\ current_data' = process_hardware_data(raw_data[t])
    /\ pc' = [pc EXCEPT ![t] = "u_swap"]
    /\ UNCHANGED <<historical_data, fileVars, now, raw_data, respVars,
                   mgrVars, budgetVars, cycleVars, obsVars>>

\* line 384: process_hardware_data(raw_data)
Process(t) ==
    /\ pc[t] = "u_proc"
    /\ CanRun(t)
    /\ processed_data' =
          [processed_data EXCEPT ![t] = process_hardware_data(raw_data[t])]
    /\ pc' = [pc EXCEPT ![t] = "u_swap"]
    /\ UNCHANGED <<memVars, fileVars, now, raw_data, respVars,
                   mgrVars, budgetVars, cycleVars, obsVars>>

\* line 387: self.current_data = processed_data
Swap(t) ==
    /\ pc[t] = "u_swap"
    /\ CanRun(t)
    /\ current_data' = replace_current(current_data, processed_data[t])
    /\ produced' = processed_data[t]
    /\ last_produced' = processed_data[t]
    /\ pc' = [pc EXCEPT ![t] = "u_append"]
    /\ UNCHANGED <<historical_data, fileVars, now, localVars, respVars,
                   mgrVars, budgetVars, cycleVars, completed, boot, persisted,
                   last_cycle, request, served>>

\* The record is made of the snapshot that was current before line 387.
AddToHistoricalPrevious(t) ==
    /\ pc[t] = "u_append"
    /\ CanRun(t)
    /\ now' = clock_read(now)
    /\ historical_data' =
          add_to_historical(historical_data, entry[t].current, now')
    /\ pc' = [pc EXCEPT ![t] = "u_cur_open"]
    /\ UNCHANGED <<current_data, fileVars, localVars, respVars,
                   mgrVars, budgetVars, cycleVars, obsVars>>

\* line 390: self._add_to_historical(processed_data)
AddToHistorical(t) ==
    /\ pc[t] = "u_append"
    /\ CanRun(t)
    /\ now' = clock_read(now)
    /\ historical_data' =
          add_to_historical(historical_data, processed_data[t], now')
    /\ pc' = [pc EXCEPT ![t] = "u_cur_open"]
    /\ UNCHANGED <<current_data, fileVars, localVars, respVars,
                   mgrVars, budgetVars, cycleVars, obsVars>>

\* A write of caller t fails: the except clause logs it.
WriteFails(t, name) ==
    /\ incidents < MaxIncidents
    /\ incidents' = incidents + 1
    /\ failed' = [failed EXCEPT ![t] = @ \cup {name}]
    /\ UNCHANGED saved

\* A write of caller t goes through.
WriteSucceeds(t, name) ==
    /\ saved' = [saved EXCEPT ![t] = @ \cup {name}]
    /\ UNCHANGED <<failed, incidents>>

\* A failed open removes the file it could not write.
SaveCurrentOpenUnlink(t) ==
    /\ pc[t] = "u_cur_open"
    /\ CanRun(t)
    /\ \/ /\ current_data = None
          /\ pc' = [pc EXCEPT ![t] = "u_hist_open"]
          /\ UNCHANGED <<data_file, incidents, saved, failed>>
       \/ /\ current_data # None
          /\ data_file' = TruncatedData
          /\ pc' = [pc EXCEPT ![t] = "u_cur_dump"]
          /\ UNCHANGED <<incidents, saved, failed>>
       \/ /\ current_data # None
          /\ WriteFails(t, "current")
          /\ pc' = [pc EXCEPT ![t] = "u_hist_open"]
          /\ data_file' = MissingData
    /\ UNCHANGED <<memVars, hist_file, now, localVars, respVars,
                   mgrVars, cycles, entry, obsVars>>

\* lines 334-338: _save_current_to_disk returns at once when there is no
\* current data; open(..., "w") truncates the file, or fails and leaves it.
\* Either way update_data goes on to line 396.
SaveCurrentOpen(t) ==
    /\ pc[t] = "u_cur_open"
    /\ CanRun(t)
    /\ \/ /\ current_data = None
          /\ pc' = [pc EXCEPT ![t] = "u_hist_open"]
          /\ UNCHANGED <<data_file, incidents, saved, failed>>
       \/ /\ current_data # None
          /\ data_file' = TruncatedData
          /\ pc' = [pc EXCEPT ![t] = "u_cur_dump"]
          /\ UNCHANGED <<incidents, saved, failed>>
       \/ /\ current_data # None
          /\ WriteFails(t, "current")
          /\ pc' = [pc EXCEPT ![t] = "u_hist_open"]
          /\ UNCHANGED data_file
    /\ UNCHANGED <<memVars, hist_file, now, localVars, respVars,
                   mgrVars, cycles, entry, obsVars>>

\* No except clause: a failed dump ends update_data before line 396.
SaveCurrentDumpRaises(t) ==
    /\ pc[t] = "u_cur_dump"
    /\ CanRun(t)
    /\ \/ /\ data_file' = [st |-> "ok", doc |-> model_dump(current_data)]
          /\ WriteSucceeds(t, "current")
          /\ pc' = [pc EXCEPT ![t] = "u_hist_open"]
       \/ /\ data_file' = TruncatedData
          /\ WriteFails(t, "current")
          /\ pc' = [pc EXCEPT ![t] = "u_ret"]
    /\ UNCHANGED <<memVars, hist_file, now, localVars, respVars,
                   mgrVars, cycles, entry, obsVars>>

\* lines 339-344: json.dump(self.current_data.model_dump(), f); a failure
\* part-way is caught and leaves the partial document.
SaveCurrentDump(t) ==
    /\ pc[t] = "u_cur_dump"
    /\ CanRun(t)
    /\ \/ /\ data_file' = [st |-> "ok", doc |-> model_dump(current_data)]
          /\ WriteSucceeds(t, "current")
       \/ /\ data_file' = TruncatedData
          /\ WriteFails(t, "current")
    /\ pc' = [pc EXCEPT ![t] = "u_hist_open"]
    /\ UNCHANGED <<memVars, hist_file, now, localVars, respVars,
                   mgrVars, cycles, entry, obsVars>>

\* lines 348-349: open(self.hist_data_path, "w")
SaveHistoricalOpen(t) ==
    /\ pc[t] = "u_hist_open"
    /\ CanRun(t)
    /\ \/ /\ hist_file' = TruncatedHist
          /\ pc' = [pc EXCEPT ![t] = "u_hist_dump"]
          /\ UNCHANGED <<incidents, saved, failed>>
       \/ /\ WriteFails(t, "historical")
          /\ pc' = [pc EXCEPT ![t] = "u_ret"]
          /\ UNCHANGED hist_file
    /\ UNCHANGED <<memVars, data_file, now, localVars, respVars,
                   mgrVars, cycles, entry, obsVars>>

\* The records of a history document.
Records(doc) == {doc[i] : i \in 1..Len(doc)}

\* A failed dump takes the new record back out of the list.
SaveHistoricalDumpRollback(t) ==
    /\ pc[t] = "u_hist_dump"
    /\ CanRun(t)
    /\ \/ /\ hist_file' = [st |-> "ok", doc |-> hist_dump(historical_data)]
          /\ WriteSucceeds(t, "historical")
          /\ persisted' = persisted \cup Records(hist_file'.doc)
          /\ UNCHANGED historical_data
       \/ /\ hist_file' = TruncatedHist
          /\ WriteFails(t, "historical")
          /\ historical_data' = entry[t].history
          /\ UNCHANGED persisted
    /\ pc' = [pc EXCEPT ![t] = "u_ret"]
    /\ UNCHANGED <<current_data, data_file, now, localVars, respVars,
                   mgrVars, cycles, entry, seenVars>>

\* lines 350-358: json.dump of every record of self.historical_data
SaveHistoricalDump(t) ==
    /\ pc[t] = "u_hist_dump"
    /\ CanRun(t)
    /\ \/ /\ hist_file' = [st |-> "ok", doc |-> hist_dump(historical_data)]
          /\ WriteSucceeds(t, "historical")
          /\ persisted' = persisted \cup Records(hist_file'.doc)
       \/ /\ hist_file' = TruncatedHist
          /\ WriteFails(t, "historical")
          /\ UNCHANGED persisted
    /\ pc' = [pc EXCEPT ![t] = "u_ret"]
    /\ UNCHANGED <<memVars, data_file, now, localVars, respVars,
                   mgrVars, cycles, entry, seenVars>>

\* lines 398-400: update_data returns to its caller.
UpdateReturn(t) ==
    /\ pc[t] = "u_ret"
    /\ CanRun(t)
    /\ completed' = Append(completed, processed_data[t])
    /\ last_cycle' = processed_data[t]
    /\ raw_data' = [raw_data EXCEPT ![t] = NoRaw]
    /\ processed_data' = [processed_data EXCEPT ![t] = None]
    /\ entry' = [entry EXCEPT ![t] = NoEntry]
    /\ saved' = [saved EXCEPT ![t] = {}]
    /\ failed' = [failed EXCEPT ![t] = {}]
    /\ pc' = [pc EXCEPT ![t] = Continuation(t)]
    /\ UNCHANGED <<memVars, fileVars, now, respVars, mgrVars,
                   budgetVars, boot, persisted, produced, last_produced,
                   request,
                   served>>

\* No try block in data_update_loop: the exception ends the loop task.
CycleFaultEndsLoop(t) ==
    /\ pc[t] \in {"u_sim", "u_proc"}
    /\ CanRun(t)
    /\ incidents < MaxIncidents
    /\ incidents' = incidents + 1
    /\ raw_data' = [raw_data EXCEPT ![t] = NoRaw]
    /\ processed_data' = [processed_data EXCEPT ![t] = None]
    /\ entry' = [entry EXCEPT ![t] = NoEntry]
    /\ pc' = [pc EXCEPT ![t] = IF t \in Readers THEN "error" ELSE "exited"]
    /\ response' = IF t \in Readers
                   THEN [response EXCEPT ![t] = Error500] ELSE response
    /\ cycles' = IF t \in Loops THEN cycles - 1 ELSE cycles
    /\ UNCHANGED <<memVars, fileVars, now, hist_response, mgrVars,
                   saved, failed, obsVars>>

\* An exception inside simulate_hardware_data or process_hardware_data
\* leaves update_data before line 387 and reaches the caller: the lifespan
\* startup fails, the loop's except clause (lines 438-440) sleeps, and the
\* request handler has no handler for it (the framework answers 500).
CycleFault(t) ==
    /\ pc[t] \in {"u_sim", "u_proc"}
    /\ CanRun(t)
    /\ incidents < MaxIncidents
    /\ incidents' = incidents + 1
    /\ raw_data' = [raw_data EXCEPT ![t] = NoRaw]
    /\ processed_data' = [processed_data EXCEPT ![t] = None]
    /\ entry' = [entry EXCEPT ![t] = NoEntry]
    /\ pc' = [pc EXCEPT ![t] =
                IF t = LIFESPAN THEN "exited"
                ELSE IF t \in Loops THEN "sleep_err" ELSE "error"]
    /\ response' = IF t \in Readers
                   THEN [response EXCEPT ![t] = Error500] ELSE response
    /\ cycles' = IF t \in Loops THEN cycles - 1 ELSE cycles
    /\ UNCHANGED <<memVars, fileVars, now, hist_response, mgrVars,
                   saved, failed, obsVars>>

\* ---------------------------------------------------------------- callers
\* A file holds exactly the given snapshot (no file for no snapshot).
DataFileHolds(file, cur) ==
    IF cur = None THEN file.st = "missing"
    ELSE file.st = "ok" /\ file.doc = model_dump(cur)

\* A file holds exactly the given records (no file for no records).
HistFileHolds(file, hist) ==
    IF hist = <<>> THEN file.st = "missing"
    ELSE file.st = "ok" /\ file.doc = hist_dump(hist)

\* The files hold exactly what memory holds.
Mirrors(cur, hist, dfile, hfile) ==
    DataFileHolds(dfile, cur) /\ HistFileHolds(hfile, hist)

\* Entry of update_data (line 371) from caller t.
EnterUpdate(t) ==
    /\ cycles < MaxCycles
    /\ cycles' = cycles + 1
    /\ entry' = [entry EXCEPT ![t] =
                    [current |-> current_data, history |-> historical_data,
                     mirrored |-> Mirrors(current_data, historical_data,
                                          data_file, hist_file)]]
    /\ saved' = [saved EXCEPT ![t] = {}]
    /\ failed' = [failed EXCEPT ![t] = {}]
    /\ UNCHANGED incidents

\* lifespan, line 478: the first update of the startup.
LifespanStartup ==
    /\ pc[LIFESPAN] = "init"
    /\ CanRun(LIFESPAN)
    /\ EnterUpdate(LIFESPAN)
    /\ pc' = [pc EXCEPT ![LIFESPAN] = "u_sim"]
    /\ UNCHANGED <<memVars, fileVars, now, localVars, respVars,
                   mgrVars, obsVars>>

\* lifespan, lines 481-483 and start(), line 444: create the loop task,
\* keep it in self.task and yield to the server.
LifespanStart ==
    /\ pc[LIFESPAN] = "start"
    /\ CanRun(LIFESPAN)
    /\ pc' = [pc EXCEPT ![LIFESPAN] = "serving", ![LOOP] = "created"]
    /\ task' = {LOOP}
    /\ UNCHANGED <<memVars, fileVars, now, localVars, respVars,
                   cancel_requested, budgetVars, cycleVars, obsVars>>

\* The task object a further asyncio.create_task would make.
NewTask == IF pc[LOOP] = "nil" THEN LOOP ELSE LOOP2

\* start(), lines 442-444, called once more on background_manager while the
\* application serves: a new task, and self.task is overwritten.
StartAgain ==
    /\ pc[LIFESPAN] = "serving"
    /\ CanRun(LIFESPAN)
    /\ pc[NewTask] = "nil"
    /\ pc' = [pc EXCEPT ![NewTask] = "created"]
    /\ task' = {NewTask}
    /\ UNCHANGED <<memVars, fileVars, now, localVars, respVars,
                   cancel_requested, budgetVars, cycleVars, obsVars>>

\* lifespan, line 489 and stop(), lines 448-451: cancel self.task (there is
\* one after start()) and await it.
LifespanStop ==
    /\ pc[LIFESPAN] = "serving"
    /\ CanRun(LIFESPAN)
    /\ task # {}
    /\ cancel_requested' = cancel_requested \cup task
    /\ pc' = [pc EXCEPT ![LIFESPAN] = "stop_wait"]
    /\ UNCHANGED <<memVars, fileVars, now, localVars, respVars, task,
                   budgetVars, cycleVars, obsVars>>

\* stop(), lines 452-454: the awaited task has ended with CancelledError.
StopReturn ==
    /\ pc[LIFESPAN] = "stop_wait"
    /\ \A l \in task : pc[l] = "cancelled"
    /\ CanRun(LIFESPAN)
    /\ pc' = [pc EXCEPT ![LIFESPAN] = "exited"]
    /\ UNCHANGED <<memVars, fileVars, now, localVars, respVars,
                   mgrVars, budgetVars, cycleVars, obsVars>>

\* The wake-up from asyncio.sleep does not look at the cancellation.
LoopIterateIgnoresCancel(l) ==
    /\ pc[l] \in {"created", "sleep", "sleep_err"}
    /\ CanRun(l)
    /\ EnterUpdate(l)
    /\ pc' = [pc EXCEPT ![l] = "u_sim"]
    /\ UNCHANGED <<memVars, fileVars, now, localVars, respVars,
                   mgrVars, obsVars>>

\* data_update_loop, lines 430-433: first run of the task, or wake-up from
\* either asyncio.sleep(2), straight into update_data.
LoopIterate(l) ==
    /\ pc[l] \in {"created", "sleep", "sleep_err"}
    /\ l \notin cancel_requested
    /\ CanRun(l)
    /\ EnterUpdate(l)
    /\ pc' = [pc EXCEPT ![l] = "u_sim"]
    /\ UNCHANGED <<memVars, fileVars, now, localVars, respVars,
                   mgrVars, obsVars>>

\* data_update_loop, lines 436/440: CancelledError is raised at the await;
\* it is not an Exception, so the except clause lets it end the task.
LoopCancelled(l) ==
    /\ pc[l] \in {"created", "sleep", "sleep_err"}
    /\ l \in cancel_requested
    /\ CanRun(l)
    /\ pc' = [pc EXCEPT ![l] = "cancelled"]
    /\ UNCHANGED <<memVars, fileVars, now, localVars, respVars,
                   mgrVars, budgetVars, cycleVars, obsVars>>

\* A request reaches the server: its handler coroutine is scheduled.
Arrive(r) ==
    /\ pc[r] = "idle"
    /\ pc' = [pc EXCEPT ![r] = "pending"]
    /\ UNCHANGED <<memVars, fileVars, now, localVars, respVars,
                   mgrVars, budgetVars, cycleVars, obsVars>>

\* Everything goes through update_data on every request.
needs_update_always(cur) == TRUE

\* get_robot_data, line 511: if current_data is None
needs_update(cur) == cur = None

\* get_current_data hands the snapshot over and forgets it.
GetRobotDataTake(r) ==
    /\ pc[r] = "pending"
    /\ CanRun(r)
    /\ ~needs_update(current_data)
    /\ request' = [request EXCEPT ![r] =
                      RequestOf(current_data, historical_data, ~served)]
    /\ response' = [response EXCEPT ![r] = current_data]
    /\ current_data' = None
    /\ pc' = [pc EXCEPT ![r] = "return"]
    /\ UNCHANGED <<historical_data, fileVars, now, localVars, hist_response,
                   mgrVars, budgetVars, cycleVars, completed, boot, persisted,
                   produced, last_cycle, last_produced, served>>

\* get_robot_data, lines 509-511, when current data exists.
GetRobotData(r) ==
    /\ pc[r] = "pending"
    /\ CanRun(r)
    /\ ~needs_update(current_data)
    /\ request' = [request EXCEPT ![r] =
                      RequestOf(current_data, historical_data, ~served)]
    /\ response' = [response EXCEPT ![r] = current_data]
    /\ pc' = [pc EXCEPT ![r] = "return"]
    /\ UNCHANGED <<memVars, fileVars, now, localVars, hist_response,
                   mgrVars, budgetVars, cycleVars, completed, boot, persisted,
                   produced, last_cycle, last_produced, served>>

\* get_robot_data, lines 509-513: no current data, update immediately.
GetRobotDataBootstrap(r) ==
    /\ pc[r] = "pending"
    /\ CanRun(r)
    /\ needs_update(current_data)
    /\ request' = [request EXCEPT ![r] =
                      RequestOf(current_data, historical_data, ~served)]
    /\ EnterUpdate(r)
    /\ pc' = [pc EXCEPT ![r] = "u_sim"]
    /\ UNCHANGED <<memVars, fileVars, now, localVars, respVars,
                   mgrVars, completed, boot, persisted, produced, last_cycle,
                   last_produced, served>>

\* get_robot_data, line 514: read the current data again.
GetRobotDataReget(r) ==
    /\ pc[r] = "reget"
    /\ CanRun(r)
    /\ response' = [response EXCEPT ![r] = current_data]
    /\ pc' = [pc EXCEPT ![r] = "return"]
    /\ UNCHANGED <<memVars, fileVars, now, localVars, hist_response,
                   mgrVars, budgetVars, cycleVars, obsVars>>

\* get_robot_data, line 516: the answer leaves the handler.  An exception
\* of the bootstrap update leaves it as well (status 500).
GetRobotDataReturn(r) ==
    /\ pc[r] \in {"return", "error"}
    /\ CanRun(r)
    /\ served' = TRUE
    /\ response' = [response EXCEPT ![r] = NoResponse]
    /\ request' = [request EXCEPT ![r] = NoRequest]
    /\ pc' = [pc EXCEPT ![r] = "idle"]
    /\ UNCHANGED <<memVars, fileVars, now, localVars, hist_response,
                   mgrVars, budgetVars, cycleVars, completed, boot, persisted,
                   produced, last_cycle, last_produced>>

\* get_historical_data, line 527
GetHistoricalData(r) ==
    /\ pc[r] = "pending"
    /\ CanRun(r)
    /\ request' = [request EXCEPT ![r] =
                      RequestOf(current_data, historical_data, FALSE)]
    /\ hist_response' = [hist_response EXCEPT ![r] = historical_data]
    /\ pc' = [pc EXCEPT ![r] = "hist_return"]
    /\ UNCHANGED <<memVars, fileVars, now, localVars, response,
                   mgrVars, budgetVars, cycleVars, completed, boot, persisted,
                   produced, last_cycle, last_produced, served>>

\* get_historical_data, line 528
GetHistoricalDataReturn(r) ==
    /\ pc[r] = "hist_return"
    /\ CanRun(r)
    /\ hist_response' = [hist_response EXCEPT ![r] = <<>>]
    /\ request' = [request EXCEPT ![r] = NoRequest]
    /\ pc' = [pc EXCEPT ![r] = "idle"]
    /\ UNCHANGED <<memVars, fileVars, now, localVars, response,
                   mgrVars, budgetVars, cycleVars, completed, boot, persisted,
                   produced, last_cycle, last_produced, served>>

\* One try block around both loads: a failure of the first skips the second.
RestartOneTry ==
    /\ incidents < MaxIncidents
    /\ incidents' = incidents + 1
    /\ current_data' = load_current_from_disk(data_file)
    /\ historical_data' = IF data_file.st = "corrupt" THEN <<>>
                          ELSE load_historical_from_disk(hist_file)
    /\ boot' = BootOf(current_data', historical_data', data_file, hist_file)
    /\ pc' = InitialPc
    /\ raw_data' = [t \in Tasks |-> NoRaw]
    /\ processed_data' = [t \in Tasks |-> None]
    /\ response' = [r \in Readers |-> NoResponse]
    /\ hist_response' = [r \in Readers |-> <<>>]
    /\ cancel_requested' = {}
    /\ task' = {}
    /\ completed' = <<>>
    /\ entry' = [t \in Tasks |-> NoEntry]
    /\ saved' = [t \in Tasks |-> {}]
    /\ failed' = [t \in Tasks |-> {}]
    /\ produced' = None
    /\ request' = [r \in Readers |-> NoRequest]
    /\ served' = FALSE
    /\ UNCHANGED <<fileVars, now, cycles, last_cycle, last_produced,
                   persisted>>

\* DataManager.__init__, lines 288-304, in a new process: both files are
\* loaded, nothing else of the old process is left.
Construct ==
    /\ current_data' = load_current_from_disk(data_file)
    /\ historical_data' = load_historical_from_disk(hist_file)
    /\ boot' = BootOf(current_data', historical_data', data_file, hist_file)
    /\ pc' = InitialPc
    /\ raw_data' = [t \in Tasks |-> NoRaw]
    /\ processed_data' = [t \in Tasks |-> None]
    /\ response' = [r \in Readers |-> NoResponse]
    /\ hist_response' = [r \in Readers |-> <<>>]
    /\ cancel_requested' = {}
    /\ task' = {}
    /\ completed' = <<>>
    /\ entry' = [t \in Tasks |-> NoEntry]
    /\ saved' = [t \in Tasks |-> {}]
    /\ failed' = [t \in Tasks |-> {}]
    /\ produced' = None
    /\ request' = [r \in Readers |-> NoRequest]
    /\ served' = FALSE
    /\ UNCHANGED <<fileVars, now, last_cycle, last_produced, persisted>>

\* The process dies at any point (crash, kill, exit) and a new one imports
\* the module.
Restart ==
    /\ incidents < MaxIncidents
    /\ incidents' = incidents + 1
    /\ UNCHANGED cycles
    /\ Construct

\* The same, where an update_data call cut short by the crash does not
\* count against the bound on cycles.
RestartMidCycle ==
    /\ incidents < MaxIncidents
    /\ incidents' = incidents + 1
    /\ cycles' = IF \E t \in Tasks : pc[t] \in UpdatePcs
                 THEN cycles - 1 ELSE cycles
    /\ Construct

UpdateStep(t) ==
    \/ Simulate(t)
    \/ Process(t)
    \/ Swap(t)
    \/ AddToHistorical(t)
    \/ SaveCurrentOpen(t)
    \/ SaveCurrentDump(t)
    \/ SaveHistoricalOpen(t)
    \/ SaveHistoricalDump(t)
    \/ UpdateReturn(t)
    \/ CycleFault(t)

Next ==
    \/ \E t \in Tasks : UpdateStep(t)
    \/ LifespanStartup
    \/ LifespanStart
    \/ LifespanStop
    \/ StopReturn
    \/ \E l \in Loops : LoopIterate(l)
    \/ \E l \in Loops : LoopCancelled(l)
    \/ \E r \in Readers : Arrive(r)
    \/ \E r \in Readers : GetRobotData(r)
    \/ \E r \in Readers : GetRobotDataBootstrap(r)
    \/ \E r \in Readers : GetRobotDataReget(r)
    \/ \E r \in Readers : GetRobotDataReturn(r)
    \/ \E r \in Readers : GetHistoricalData(r)
    \/ \E r \in Readers : GetHistoricalDataReturn(r)
    \/ Restart

Spec == Init /\ [][Next]_vars

\* The same program when code holding background_manager calls start()
\* again while a loop task exists.
ManagerNext == Next \/ StartAgain

ManagerSpec == Init /\ [][ManagerNext]_vars

\* Raw readings as the hardware may deliver them to process_hardware_data:
\* any number of motors up to MaxMotors, any values in any field.
RawValues == {0 - 5, 12}

RawMotors ==
    [cls : {"RawMotorData"}, id : RawValues, velocity : RawValues,
     cm : RawValues, temperature : RawValues]

RawReadings ==
    [cls : {"RawHardwareData"},
     motors : UNION {[1..n -> RawMotors] : n \in 0..MaxMotors},
     pallet : [cls : {"RawPalletData"}, id_pallet : RawValues,
               timestamp_raw : RawValues],
     centroid : [cls : {"RawCentroidData"}, centroid_x : RawValues,
                 centroid_y : RawValues, centroid_z : RawValues]]

\* update_data is at line 384 with some raw reading in hand.
ProcessInit ==
    /\ data_file = MissingData
    /\ hist_file = MissingHist
    /\ current_data = None
    /\ historical_data = <<>>
    /\ now = 0
    /\ pc = [InitialPc EXCEPT ![LIFESPAN] = "u_proc"]
    /\ \E raw \in RawReadings :
          raw_data = [t \in Tasks |-> IF t = LIFESPAN THEN raw ELSE NoRaw]
    /\ processed_data = [t \in Tasks |-> None]
    /\ response = [r \in Readers |-> NoResponse]
    /\ hist_response = [r \in Readers |-> <<>>]
    /\ cancel_requested = {}
    /\ task = {}
    /\ cycles = 1
    /\ incidents = 0
    /\ completed = <<>>
    /\ boot = BootOf(current_data, historical_data, data_file, hist_file)
    /\ persisted = {}
    /\ entry = [t \in Tasks |-> NoEntry]
    /\ saved = [t \in Tasks |-> {}]
    /\ failed = [t \in Tasks |-> {}]
    /\ produced = None
    /\ last_cycle = None
    /\ last_produced = None
    /\ request = [r \in Readers |-> NoRequest]
    /\ served = FALSE

ProcessNext == Process(LIFESPAN)

ProcessSpec == ProcessInit /\ [][ProcessNext]_vars

\* One step of synchronous code: a task that is between two awaits goes on.
SyncStep ==
    \/ \E t \in Tasks : UpdateStep(t)
    \/ LifespanStart
    \/ \E r \in Readers : GetRobotDataReget(r)
    \/ \E r \in Readers : GetRobotDataReturn(r)
    \/ \E r \in Readers : GetHistoricalDataReturn(r)

\* One run of the process, with no crash.
LiveNext ==
    \/ SyncStep
    \/ LifespanStartup
    \/ LifespanStop
    \/ StopReturn
    \/ \E l \in Loops : LoopIterate(l)
    \/ \E l \in Loops : LoopCancelled(l)
    \/ \E r \in Readers : Arrive(r)
    \/ \E r \in Readers : GetRobotData(r)
    \/ \E r \in Readers : GetRobotDataBootstrap(r)
    \/ \E r \in Readers : GetHistoricalData(r)

\* The program over a longer life: as Spec, with the crashed cycles outside
\* the bound on cycles.
CrashNext == LiveNext \/ RestartMidCycle

CrashSpec == Init /\ [][CrashNext]_vars

\* The event loop runs synchronous code to its next await, and a task whose
\* sleep has elapsed is run again however many requests keep arriving.
LiveSpec ==
    /\ Init
    /\ [][LiveNext]_vars
    /\ WF_vars(SyncStep)
    /\ SF_vars(LoopIterate(LOOP))

\* ------------------------------------------------------------ properties
\* No update_data call is in progress.
Quiescent == \A t \in Tasks : pc[t] \notin UpdatePcs

\* Construction found nothing to load.
BootEmpty == boot.current = None /\ boot.history = <<>>

\* C1: starting from an empty state, once N calls of update_data have
\* returned (whoever issued them), the history holds exactly N records whose
\* snapshots are those of the N cycles in the order they ran, and the current
\* data is the snapshot of the N-th cycle.
C1_HistoryIsTheCyclesInOrder ==
    (BootEmpty /\ Quiescent) =>
        /\ Len(historical_data) = Len(completed)
        /\ \A i \in 1..Len(completed) : historical_data[i].data = completed[i]
        /\ completed # <<>> => current_data = completed[Len(completed)]

C1_Witness ==
    /\ BootEmpty
    /\ Quiescent
    /\ Len(completed) = 2
    /\ completed[1] # completed[2]
    /\ historical_data[2].data = completed[2]

\* C2 as claimed: in every reachable state, restarts included, the current
\* data is absent or the snapshot of the most recent cycle, and it is absent
\* only while no cycle has ever completed.
C2_CurrentIsLatestCycleEver ==
    /\ current_data \in {None, last_cycle, last_produced}
    /\ current_data = None => last_cycle = None

\* C2 as amended: within one run of the process the current data is the
\* snapshot of the most recent cycle as soon as a cycle has assigned it, and
\* until then it is what construction loaded from the current-snapshot file
\* (absent, or a snapshot that may be older than the latest cycle).
C2_CurrentIsLatestCycleOfThisRun ==
    /\ current_data = IF produced = None THEN boot.current ELSE produced
    /\ produced # None => produced = last_produced
    /\ current_data = None => produced = None /\ completed = <<>>

C2_Witness ==
    /\ boot.current # None
    /\ produced # None
    /\ produced # boot.current
    /\ current_data = produced

IsPrefix(p, q) ==
    /\ Len(p) <= Len(q)
    /\ \A i \in 1..Len(p) : p[i] = q[i]

NonDecreasing(hist) ==
    \A i \in 1..(Len(hist) - 1) :
        hist[i].timestamp_coleta <= hist[i + 1].timestamp_coleta

\* C3: after construction the in-memory history is append-only: every step
\* of every operation (cycle, read, start, stop, failed write) keeps the
\* previous history as a prefix, a cycle that returns has lengthened the
\* history it found by exactly one record, and the collection timestamps of
\* consecutive records never decrease.
C3_HistoryAppendOnly ==
    [][/\ NonDecreasing(historical_data')
       /\ \/ Restart
          \/ /\ IsPrefix(historical_data, historical_data')
             /\ \A t \in Tasks :
                   UpdateReturn(t) =>
                      /\ IsPrefix(entry[t].history, historical_data')
                      /\ Len(historical_data') = Len(entry[t].history) + 1]_vars

C3_Witness ==
    /\ Len(historical_data) = 2
    /\ historical_data[1].timestamp_coleta < historical_data[2].timestamp_coleta
    /\ \E t \in Tasks : pc[t] = "u_ret" /\ failed[t] # {}

\* C4: when a write of the current-snapshot file or of the history file
\* fails during a cycle, update_data carries on to its normal return with
\* the new snapshot as current data and as the last history record (nothing
\* is rolled back), and both files have been attempted by the time it
\* returns: a failure of the first write does not stop the second.
C4_WriteFailureKeepsCycle ==
    \A t \in Tasks :
        failed[t] # {} =>
            /\ pc[t] \in {"u_hist_open", "u_hist_dump", "u_ret"}
            /\ current_data = processed_data[t]
            /\ IsPrefix(entry[t].history, historical_data)
            /\ Len(historical_data) = Len(entry[t].history) + 1
            /\ historical_data[Len(historical_data)].data = processed_data[t]
            /\ pc[t] = "u_ret" => saved[t] \cup failed[t] = BothFiles

C4_Witness ==
    \E t \in Tasks :
        /\ pc[t] = "u_ret"
        /\ failed[t] = {"current"}
        /\ saved[t] = {"historical"}
        /\ hist_file.st = "ok"

\* C5: at the end of any cycle whose two writes both succeeded, whatever
\* failed in earlier cycles, loading the current-snapshot file gives the
\* in-memory current data and loading the history file gives the entire
\* in-memory history.
C5_FilesMirrorMemoryAfterGoodCycle ==
    \A t \in Tasks :
        (pc[t] = "u_ret" /\ saved[t] = BothFiles) =>
            /\ data_file.st = "ok"
            /\ hist_file.st = "ok"
            /\ load_current_from_disk(data_file) = current_data
            /\ load_historical_from_disk(hist_file) = historical_data

C5_Witness ==
    \E t \in Tasks :
        /\ pc[t] = "u_ret"
        /\ saved[t] = BothFiles
        /\ ~entry[t].mirrored
        /\ Len(historical_data) = 2
        /\ Len(load_historical_from_disk(hist_file)) = 2

\* The positions of update_data after line 387.
PostSwapPcs == {"u_append", "u_cur_open", "u_cur_dump", "u_hist_open",
                "u_hist_dump", "u_ret"}

\* C6 as claimed: at every point between a cycle's in-memory update and the
\* end of its writes (where a crash may fall), the current-snapshot file
\* holds the snapshot of this cycle or of the one before, and the history
\* file holds all in-memory records or all but the last.
C6_FilesStaleByAtMostOneCycle ==
    \A t \in Tasks :
        pc[t] \in PostSwapPcs =>
            /\ \/ DataFileHolds(data_file, current_data)
               \/ DataFileHolds(data_file, entry[t].current)
            /\ \/ HistFileHolds(hist_file, historical_data)
               \/ HistFileHolds(hist_file, entry[t].history)

\* C6 as amended: when the files mirrored memory as the cycle began, then at
\* every point between its in-memory update and the end of its writes each
\* file is stale by at most one cycle, or is truncated because its own write
\* is in progress or has failed part-way.
C6_FilesStaleByOneOrTruncated ==
    \A t \in Tasks :
        (pc[t] \in PostSwapPcs /\ entry[t].mirrored) =>
            /\ \/ DataFileHolds(data_file, current_data)
               \/ DataFileHolds(data_file, entry[t].current)
               \/ /\ data_file.st = "corrupt"
                  /\ pc[t] = "u_cur_dump" \/ "current" \in failed[t]
            /\ \/ HistFileHolds(hist_file, historical_data)
               \/ HistFileHolds(hist_file, entry[t].history)
               \/ /\ hist_file.st = "corrupt"
                  /\ pc[t] = "u_hist_dump" \/ "historical" \in failed[t]

C6_Witness ==
    \E t \in Tasks :
        /\ pc[t] = "u_hist_open"
        /\ entry[t].mirrored
        /\ entry[t].current # None
        /\ DataFileHolds(data_file, current_data)
        /\ HistFileHolds(hist_file, entry[t].history)
        /\ Len(historical_data) = 2

\* C7 as claimed: starting with no persisted files, the first GET /api/data
\* answers a present snapshot and leaves the history exactly one record
\* longer than it found it.
C7_FirstReadAddsOneRecord ==
    \A r \in Readers :
        (pc[r] = "return" /\ request[r].first /\ boot.fresh) =>
            /\ response[r] # None
            /\ Len(historical_data) = Len(request[r].history) + 1

\* C7 as amended: starting with no persisted files, the first GET /api/data
\* that answers gives the present current snapshot; it has added exactly one
\* history record when current was absent at the call, and none when a
\* cycle (the startup call of lifespan) had already run.
C7_FirstReadBootstrapsOnlyIfAbsent ==
    \A r \in Readers :
        (pc[r] = "return" /\ request[r].first /\ boot.fresh) =>
            /\ response[r] # None
            /\ response[r] = current_data
            /\ IsPrefix(request[r].history, historical_data)
            /\ Len(historical_data) =
                  Len(request[r].history)
                     + (IF request[r].current = None THEN 1 ELSE 0)

C7_Witness ==
    \E r \in Readers :
        /\ pc[r] = "return"
        /\ request[r].first
        /\ boot.fresh
        /\ request[r].current = None
        /\ request[r].history = <<>>
        /\ Len(historical_data) = 1
        /\ response[r] = historical_data[1].data

\* C8: construction tolerates each file on its own.  With the
\* current-snapshot file missing or corrupt it ends with current absent and
\* the history loaded in full from a valid history file; with the history
\* file missing or corrupt the history is empty and current is loaded from a
\* valid current file; the history is never loaded in part.
C8_LoadToleratesEachFile ==
    [][Restart =>
          /\ pc' = InitialPc
          /\ data_file.st # "ok" =>
                /\ current_data' = None
                /\ hist_file.st = "ok" =>
                      hist_dump(historical_data') = hist_file.doc
          /\ hist_file.st # "ok" =>
                /\ historical_data' = <<>>
                /\ data_file.st = "ok" =>
                      /\ current_data' # None
                      /\ model_dump(current_data') = data_file.doc
          /\ \/ historical_data' = <<>>
             \/ /\ hist_file.st = "ok"
                /\ Len(historical_data') = Len(hist_file.doc)]_vars

C8_Witness ==
    /\ pc = InitialPc
    /\ data_file.st = "corrupt"
    /\ hist_file.st = "ok"
    /\ boot.current = None
    /\ Len(boot.history) = 2
    /\ historical_data = boot.history

\* A complete output of process_hardware_data.
IsSnapshot(d) ==
    /\ d.cls = "ProcessedRobotData"
    /\ Len(d.motors) = 3
    /\ Len(d.pallets) = 1
    /\ d.giroscopio.cls = "Giroscopio"

\* C9: a GET /api/data that arrives while a cycle is executing is not served
\* before that cycle has returned; every answer is a complete snapshot, the
\* one that was current when the handler began or the one the latest cycle
\* produced, and it is read when the last history record already carries it
\* (never between line 387 and line 390 of another caller's cycle).
C9_ReadsSeeWholeCycles ==
    \A r \in Readers :
        /\ (\E t \in Tasks \ {r} : pc[t] \in UpdatePcs) =>
              /\ pc[r] \in {"idle", "pending"}
              /\ response[r] = NoResponse
        /\ pc[r] = "return" =>
              /\ IsSnapshot(response[r])
              /\ response[r] = current_data
              /\ response[r] \in {request[r].current, produced}
              /\ produced # None =>
                    /\ historical_data # <<>>
                    /\ historical_data[Len(historical_data)].data = response[r]

C9_Witness ==
    \E r1, r2 \in Readers :
        /\ r1 # r2
        /\ pc[r1] = "pending"
        /\ pc[r2] = "pending"
        /\ pc[LOOP] = "u_append"
        /\ entry[LOOP].current # None
        /\ current_data # entry[LOOP].current

\* C10: at no time are two executions of update_data in progress, whether
\* begun by the startup call, the background loop or a bootstrap read; two
\* requests arriving while current is absent do not run overlapping cycles.
C10_CyclesNeverOverlap ==
    Cardinality({t \in Tasks : pc[t] \in UpdatePcs}) <= 1

C10_Witness ==
    \E r1, r2 \in Readers :
        /\ r1 # r2
        /\ pc[r1] \in PostSwapPcs
        /\ entry[r1].current = None
        /\ pc[r2] = "pending"
        /\ pc[LIFESPAN] = "init"

\* The positions at which the loop task waits: created and not yet run, in
\* the sleep of line 436, in the sleep of line 440.
LoopWaitPcs == {"created", "sleep", "sleep_err"}

\* C11: an exception raised by a cycle of the background loop is caught and
\* leads to the interval wait of line 440, a returned cycle leads to the wait
\* of line 436; a cycle of the loop begins only out of a wait, and a wait
\* ends only in the next cycle or, once cancellation was requested, in the
\* end of the task.  Nothing but cancellation ends the loop.
C11_LoopSurvivesCycleFaults ==
    [][~Restart =>
          /\ (pc[LOOP] \in {"u_sim", "u_proc"} /\ pc'[LOOP] \notin UpdatePcs)
                => pc'[LOOP] = "sleep_err"
          /\ (pc[LOOP] = "u_ret" /\ pc'[LOOP] # "u_ret")
                => pc'[LOOP] = "sleep"
          /\ (pc[LOOP] # "u_sim" /\ pc'[LOOP] = "u_sim")
                => pc[LOOP] \in LoopWaitPcs /\ LOOP \notin cancel_requested
          /\ (pc[LOOP] \in {"sleep", "sleep_err"} /\ pc'[LOOP] # pc[LOOP])
                => pc'[LOOP] \in {"u_sim", "cancelled"}
          /\ (pc[LOOP] # pc'[LOOP]
                /\ pc'[LOOP] \notin UpdatePcs \cup LoopWaitPcs)
                => pc'[LOOP] = "cancelled" /\ LOOP \in cancel_requested]_vars

\* The startup cycle has returned (two clock readings), a first cycle of the
\* loop has faulted inside process_hardware_data (a third reading, an
\* incident, nothing completed), and the loop is in its next attempt.
C11_Witness ==
    /\ pc[LOOP] = "u_sim"
    /\ now = 3
    /\ pc[LIFESPAN] = "serving"
    /\ LOOP \notin cancel_requested
    /\ Len(completed) = 1
    /\ Len(historical_data) = 1
    /\ incidents = 1
    /\ data_file.st = "ok"
    /\ hist_file.st = "ok"
    /\ cycles = MaxCycles

\* C12: once cancellation is requested the loop begins no cycle; the task
\* ends only out of a wait, never out of a cycle, so a cycle that has begun
\* runs to its return (or to its own fault) with both writes attempted; an
\* ended task stays ended; and stop() returns normally to lifespan exactly
\* when the task has ended.
C12_StopEndsLoopBetweenCycles ==
    [][~Restart =>
          /\ pc[LOOP] = "cancelled" => pc'[LOOP] = "cancelled"
          /\ (pc[LOOP] # "cancelled" /\ pc'[LOOP] = "cancelled")
                => pc[LOOP] \in LoopWaitPcs /\ LOOP \in cancel_requested
          /\ pc[LOOP] \in UpdatePcs
                => pc'[LOOP] \in UpdatePcs \cup {"sleep", "sleep_err"}
          /\ (LOOP \in cancel_requested /\ pc[LOOP] \notin UpdatePcs)
                => pc'[LOOP] \notin UpdatePcs
          /\ (pc[LIFESPAN] = "stop_wait" /\ pc'[LIFESPAN] # "stop_wait")
                => pc'[LIFESPAN] = "exited" /\ pc'[LOOP] = "cancelled"
          /\ cancel_requested \subseteq cancel_requested']_vars

\* stop() has returned after the loop ran one whole cycle.
C12_Witness ==
    /\ pc[LIFESPAN] = "exited"
    /\ pc[LOOP] = "cancelled"
    /\ cancel_requested = {LOOP}
    /\ Len(completed) = 2
    /\ Mirrors(current_data, historical_data, data_file, hist_file)
    /\ Len(historical_data) = 2

\* The loop tasks that have been created and have not ended.
ActiveLoops == {l \in Loops : pc[l] \in LoopWaitPcs \cup UpdatePcs}

\* C13 as claimed: whatever start() and stop() calls are made on the
\* BackgroundTaskManager, at most one background loop is active, and once a
\* stop() has returned none is.
C13_AtMostOneLoop ==
    /\ Cardinality(ActiveLoops) <= 1
    /\ (pc[LIFESPAN] = "exited" /\ cancel_requested # {}) => ActiveLoops = {}

\* The same for the one start() and the one stop() of lifespan.
C13_OneLoopUnderLifespan ==
    /\ ActiveLoops \subseteq task
    /\ Cardinality(task) <= 1
    /\ (pc[LIFESPAN] = "exited" /\ cancel_requested # {}) => ActiveLoops = {}

\* The loop task waits, has not been cancelled, and the model's bound on
\* cycles leaves room for one more.
LoopDue ==
    /\ pc[LOOP] \in LoopWaitPcs
    /\ LOOP \notin cancel_requested
    /\ cycles < MaxCycles

ReadStep(r) ==
    \/ Arrive(r)
    \/ GetRobotData(r)
    \/ GetRobotDataReget(r)
    \/ GetRobotDataReturn(r)
    \/ GetHistoricalData(r)
    \/ GetHistoricalDataReturn(r)

\* C15: GET /api/hist_data in every state, and GET /api/data whenever the
\* current data is present, leave current, history and both files as they
\* are and hand out what memory holds; current changes only at line 387 of
\* a cycle or at construction, so repeated GET /api/data calls with no cycle
\* in between answer the same snapshot.
C15_ReadsDoNotMutate ==
    [][/\ \A r \in Readers :
             /\ ReadStep(r) => UNCHANGED <<memVars, fileVars>>
             /\ GetRobotData(r) => response'[r] = current_data
             /\ GetHistoricalData(r) => hist_response'[r] = historical_data
       /\ current_data' # current_data => (Restart \/ \E t \in Tasks : Swap(t))
      ]_vars

\* A repeated GET /api/data with current present is about to answer;
\* nothing has changed since it began.
C15_Witness ==
    \E r \in Readers :
        /\ pc[r] = "return"
        /\ served
        /\ request[r].current # None
        /\ response[r] = request[r].current
        /\ current_data = request[r].current
        /\ historical_data = request[r].history
        /\ Len(historical_data) = 2

\* C16 as claimed: no request ends in a failure; GET /api/data always
\* answers with a present snapshot, also when its bootstrap cycle faults.
C16_NoRequestFails ==
    \A r \in Readers :
        /\ pc[r] # "error"
        /\ response[r] # Error500
        /\ pc[r] = "return" => IsSnapshot(response[r])

\* C17: for every raw reading, process_hardware_data gives one motor record
\* per input motor in the same order with id, velocity and temperature
\* unchanged and distance equal to cm, exactly one pallet record with id
\* equal to id_pallet and timestamp equal to timestamp_raw, and centroid x,
\* y, z equal to centroid_x, centroid_y, centroid_z.
C17_ProcessIsPureRenaming ==
    \A t \in Tasks :
        pc[t] = "u_swap" =>
            /\ Len(processed_data[t].motors) = Len(raw_data[t].motors)
            /\ \A i \in 1..Len(raw_data[t].motors) :
                  /\ processed_data[t].motors[i].id = raw_data[t].motors[i].id
                  /\ processed_data[t].motors[i].velocity
                        = raw_data[t].motors[i].velocity
                  /\ processed_data[t].motors[i].distance
                        = raw_data[t].motors[i].cm
                  /\ processed_data[t].motors[i].temperature
                        = raw_data[t].motors[i].temperature
            /\ Len(processed_data[t].pallets) = 1
            /\ processed_data[t].pallets[1].id = raw_data[t].pallet.id_pallet
            /\ processed_data[t].pallets[1].timestamp
                  = raw_data[t].pallet.timestamp_raw
            /\ processed_data[t].giroscopio.centroid.x
                  = raw_data[t].centroid.centroid_x
            /\ processed_data[t].giroscopio.centroid.y
                  = raw_data[t].centroid.centroid_y
            /\ processed_data[t].giroscopio.centroid.z
                  = raw_data[t].centroid.centroid_z

\* A reading of two different motors, each with cm different from velocity,
\* has been processed.
C17_Witness ==
    \E t \in Tasks :
        /\ pc[t] = "u_swap"
        /\ Len(raw_data[t].motors) = 2
        /\ raw_data[t].motors[1] # raw_data[t].motors[2]
        /\ raw_data[t].motors[1].cm # raw_data[t].motors[1].velocity
        /\ raw_data[t].motors[2].cm # raw_data[t].motors[2].velocity
        /\ raw_data[t].pallet.id_pallet # raw_data[t].pallet.timestamp_raw
        /\ processed_data[t].motors[2].distance = raw_data[t].motors[2].cm

\* C18: while a cycle is in simulation or transformation nothing of
\* current, history and the two files changes, so a cycle that faults there
\* leaves them exactly as it found them; and every snapshot held as current
\* or in a history record is a complete output of process_hardware_data.
C18_FaultedCycleChangesNothing ==
    [][/\ ~Restart =>
             \A t \in Tasks :
                 /\ pc[t] \in {"u_sim", "u_proc"}
                       => UNCHANGED <<memVars, fileVars>>
                 /\ CycleFault(t) =>
                       /\ current_data' = entry[t].current
                       /\ historical_data' = entry[t].history
                       /\ pc'[t] \notin UpdatePcs
       /\ current_data' # None => IsSnapshot(current_data')
       /\ \A i \in 1..Len(historical_data') :
             IsSnapshot(historical_data'[i].data)]_vars

\* A cycle of the loop has faulted; memory and files are those of the
\* startup cycle.
C18_Witness ==
    /\ pc[LOOP] = "sleep_err"
    /\ current_data # None
    /\ Len(historical_data) = 1
    /\ historical_data[1].data = current_data
    /\ Mirrors(current_data, historical_data, data_file, hist_file)
    /\ completed = <<current_data>>

\* C19 as claimed: in every reachable state in which current is present
\* and the history is not empty, current is the data of the last record.
C19_CurrentIsLastRecord ==
    (current_data # None /\ historical_data # <<>>) =>
        current_data = historical_data[Len(historical_data)].data

\* The same at the points where no update_data call is in progress.
C19_CurrentIsLastRecordAtRest ==
    Quiescent => C19_CurrentIsLastRecord

\* C19 as amended: once a cycle of this run has assigned current, the
\* history is not empty and current is the data of its last record, except
\* while that cycle is between line 387 and line 390; before the first
\* cycle of a run, current and history are what construction loaded from
\* the two files, whether or not they agree.
C19_CurrentIsLastRecordOfThisRun ==
    /\ (produced # None /\ \A t \in Tasks : pc[t] # "u_append") =>
          /\ historical_data # <<>>
          /\ current_data = historical_data[Len(historical_data)].data
    /\ produced = None =>
          /\ current_data = boot.current
          /\ historical_data = boot.history

\* Construction loaded a history and no current; a cycle has since run.
C19_Witness ==
    /\ Quiescent
    /\ boot.current = None
    /\ Len(boot.history) = 1
    /\ produced # None
    /\ Len(historical_data) = 2
    /\ current_data = historical_data[2].data
    /\ current_data # historical_data[1].data

\* C20 as claimed: every record that a completed write has once put in
\* the history file is in the history file after every later completed
\* write of it.
C20_PersistedHistoryKept ==
    hist_file.st = "ok" => persisted \subseteq Records(hist_file.doc)

====
